---- MODULE Spec2Model ----
(***************************************************************************)
(* Model of perbu/describe (src/main.go): the staged-change collector      *)
(* getStagedChanges, the diff synthesizer generateUnifiedDiffContent,      *)
(* shouldIgnorePath, isBinary, the configuration (loadConfigFile,          *)
(* getConfig), describeChanges and run.                                    *)
(*                                                                         *)
(* Text is a sequence of one-character strings; NL is the newline.  A      *)
(* rendered document is the sequence of its lines, each line the sequence  *)
(* of the string pieces written before its terminating "\n" (every write   *)
(* of the program ends in "\n" and no piece holds one), so                 *)
(* strings.Count(doc, "\n") is Len(doc) and "" is the empty sequence.      *)
(***************************************************************************)
EXTENDS Integers, Sequences, FiniteSets, TLC

VARIABLES
    oldContent,     \* generateUnifiedDiffContent: parameter oldContent
    newContent,     \* generateUnifiedDiffContent: parameter newContent
    diffOut,        \* generateUnifiedDiffContent: the returned text
    diffPc,         \* "call" before the call, "ret" after it, "idle" when unused
    repo,           \* the repository getStagedChanges reads (fixed during a call)
    maxLines,       \* cfg.maxLines
    pc,             \* position in getStagedChanges
    remaining,      \* status entries the filter loop has not visited yet
    filesToInclude, \* filesToInclude (stagedFileCount is its length)
    rendered,       \* number of files of filesToInclude already rendered
    patchBuf,       \* patchBuf, as the sequence of its lines
    ret,            \* the returned (document, error) once pc = "done"
    binaryCalls,    \* the paths getStagedChanges has called isBinary on
    ignPath,        \* shouldIgnorePath: parameter path
    ignOut,         \* shouldIgnorePath: the returned bool
    ignPc,          \* "call" before the call, "ret" after it, "idle" when unused
    binFile,        \* isBinary: the file the parameter path names
    binOut,         \* isBinary: the returned (bool, error)
    binPc,          \* "call" before the call, "ret" after it, "idle" when unused
    cfgFile,        \* getConfig: the config file loadConfigFile finds
    cfgArgs,        \* getConfig: parameter args, as the flag set parses them
    cfgEnvKey,      \* getConfig: the value of OPENROUTER_API_KEY ("" when unset)
    cfgOut,         \* getConfig: the returned (config, help, error)
    cfgPc,          \* "call" before the call, "ret" after it, "idle" when unused
    runPc,          \* position in run
    runCfg,         \* run: what getConfig returned (runConfig, showHelp, err)
    repoOpened,     \* run: whether git.PlainOpen was called and succeeded
    runOutput,      \* run: the texts written to output, in order
    runErr,         \* run: the returned error once runPc = "done"
    apiCalls,       \* run: the requests sent to the summarization endpoint
    firstRet,       \* what an earlier getStagedChanges call on repo returned
    invocation      \* which getStagedChanges call on repo is under way

diffVars == <<oldContent, newContent, diffOut, diffPc>>
ignVars == <<ignPath, ignOut, ignPc>>
binVars == <<binFile, binOut, binPc>>
cfgVars == <<cfgFile, cfgArgs, cfgEnvKey, cfgOut, cfgPc>>
runVars == <<runPc, runCfg, repoOpened, runOutput, runErr, apiCalls>>
againVars == <<firstRet, invocation>>
\* the variables getStagedChanges has no access to
lateVars == <<cfgVars, runVars, againVars>>
pureVars == <<diffVars, ignVars, binVars, lateVars>>
collectVars == <<repo, maxLines, pc, remaining, filesToInclude, rendered, patchBuf, ret,
                 binaryCalls>>
vars == <<oldContent, newContent, diffOut, diffPc,
          repo, maxLines, pc, remaining, filesToInclude, rendered, patchBuf, ret,
          binaryCalls, ignPath, ignOut, ignPc, binFile, binOut, binPc,
          cfgFile, cfgArgs, cfgEnvKey, cfgOut, cfgPc,
          runPc, runCfg, repoOpened, runOutput, runErr, apiCalls,
          firstRet, invocation>>

\* ------------------------------------------------------------------ bounds
MaxLen == 4         \* longest text (in characters) given to the synthesizer
MaxBudget == 6      \* largest positive cfg.maxLines tried
MaxPathLen == 3     \* longest path (in pieces) given to shouldIgnorePath
MaxRuns == 2        \* most runs of equal bytes in a file given to isBinary

\* ------------------------------------------------------------------ text
NL == "\n"
Alphabet == {"x", "y", NL}

Min(a, b) == IF a < b THEN a ELSE b
Max(a, b) == IF a > b THEN a ELSE b

Texts == UNION {[1..n -> Alphabet] : n \in 0..MaxLen}

\* strings.Split(s, "\n"): the pieces between newlines; "" gives one empty piece.
RECURSIVE Split(_)
Split(s) ==
    IF s = <<>> THEN << <<>> >>
    ELSE LET front == Split(SubSeq(s, 1, Len(s) - 1))
             c     == s[Len(s)]
         IN  IF c = NL THEN Append(front, <<>>)
             ELSE [front EXCEPT ![Len(front)] = Append(@, c)]

\* lines 491-500: split, with the empty text giving no lines at all.
SplitLines(content) == IF content = <<>> THEN <<>> ELSE Split(content)

\* ------------------------------------------- generateUnifiedDiffContent
contextLines == 3

\* lines 507-515: count of leading equal lines (0-based index k, 1-based seqs).
RECURSIVE PrefixLoop(_, _, _, _)
PrefixLoop(oldLines, newLines, minLen, k) ==
    IF k < minLen /\ oldLines[k + 1] = newLines[k + 1]
    THEN PrefixLoop(oldLines, newLines, minLen, k + 1)
    ELSE k

CommonPrefix(oldLines, newLines) ==
    PrefixLoop(oldLines, newLines, Min(Len(oldLines), Len(newLines)), 0)

\* lines 517-523: count of trailing equal lines, kept clear of the prefix.
RECURSIVE SuffixLoop(_, _, _, _)
SuffixLoop(oldLines, newLines, room, k) ==
    IF k < room /\ oldLines[Len(oldLines) - k] = newLines[Len(newLines) - k]
    THEN SuffixLoop(oldLines, newLines, room, k + 1)
    ELSE k

\* Mutant: the suffix scan bounded by minLen alone, so it may run into the prefix.
CommonSuffixOverlap(oldLines, newLines) ==
    SuffixLoop(oldLines, newLines, Min(Len(oldLines), Len(newLines)), 0)

CommonSuffix(oldLines, newLines) ==
    SuffixLoop(oldLines, newLines,
               Min(Len(oldLines), Len(newLines)) - CommonPrefix(oldLines, newLines), 0)

\* lines 538-545: oldStart = newStart = commonPrefix - contextLines, floored at 0.
HunkStart(prefix) == IF prefix - contextLines < 0 THEN 0 ELSE prefix - contextLines

\* Mutant: the end of the window not clipped to the length of the side.
HunkEndUnclipped(lines, prefix, count) == prefix + count + contextLines

\* lines 547-554: end of the window of one side, clipped to its length.
HunkEnd(lines, prefix, count) ==
    IF prefix + count + contextLines > Len(lines) THEN Len(lines)
    ELSE prefix + count + contextLines

\* lines 560-561: the "@@ -a,b +c,d @@" line.
HunkHeader(oldStart, oldCount, newStart, newCount) ==
    <<"@@ -", ToString(oldStart + 1), ",", ToString(oldCount),
      " +", ToString(newStart + 1), ",", ToString(newCount), " @@">>

\* A for loop "for i := lo; i < hi; i++ { write tag + lines[i] }" (0-based i).
RECURSIVE WriteLoop(_, _, _, _)
WriteLoop(lines, tag, i, hi) ==
    IF i < hi
    THEN <<(<<tag>> \o lines[i + 1])>> \o WriteLoop(lines, tag, i + 1, hi)
    ELSE <<>>

\* lines 568-580: the loop bound of the removed (added) lines.  count is the
\* side's count AFTER it was overwritten with the window size at lines 556-557.
ChangedBound(lines, prefix, suffix, count) ==
    Min(Min(prefix + count - contextLines, Len(lines) - suffix), Len(lines))

generateUnifiedDiffContent(oldC, newC) ==
    LET oldLines == SplitLines(oldC)
        newLines == SplitLines(newC)
        prefix   == CommonPrefix(oldLines, newLines)
        suffix   == CommonSuffix(oldLines, newLines)
        oldCount0 == Len(oldLines) - prefix - suffix
        newCount0 == Len(newLines) - prefix - suffix
        oldStart == HunkStart(prefix)
        newStart == HunkStart(prefix)
        oldEnd   == HunkEnd(oldLines, prefix, oldCount0)
        newEnd   == HunkEnd(newLines, prefix, newCount0)
        oldCount == oldEnd - oldStart
        newCount == newEnd - newStart
    IN  IF oldCount0 = 0 /\ newCount0 = 0 THEN <<>>
        ELSE <<HunkHeader(oldStart, oldCount, newStart, newCount)>>
             \o WriteLoop(oldLines, " ", oldStart, Min(prefix, oldEnd))
             \o WriteLoop(oldLines, "-", prefix,
                          ChangedBound(oldLines, prefix, suffix, oldCount))
             \o WriteLoop(newLines, "+", prefix,
                          ChangedBound(newLines, prefix, suffix, newCount))
             \o WriteLoop(oldLines, " ", Len(oldLines) - suffix,
                          Min(oldEnd, Len(oldLines)))

\* ------------------------------------------------------ shouldIgnorePath
\* A path is the sequence of its pieces, "/" being a piece of its own.
ignoredDirs ==
    { <<"vendor">>, <<"node_modules">>, <<".git">>, <<"dist">>, <<"build">>,
      <<"target">>, <<".next">>, <<".nuxt">>, <<"__pycache__">>,
      <<".pytest_cache">>, <<".tox">>, <<"venv">>, <<".venv">> }

\* strings.Split(path, "/")
RECURSIVE PathParts(_)
PathParts(path) ==
    IF path = <<>> THEN << <<>> >>
    ELSE LET front == PathParts(SubSeq(path, 1, Len(path) - 1))
             c     == path[Len(path)]
         IN  IF c = "/" THEN Append(front, <<>>)
             ELSE [front EXCEPT ![Len(front)] = Append(@, c)]

\* Mutant: the whole path compared with the ignored names, without splitting it.
shouldIgnorePathUnsplit(path) == path \in ignoredDirs

\* Mutant: a part that begins with an ignored name counts as ignored.
shouldIgnorePathPrefix(path) ==
    \E i \in 1..Len(PathParts(path)) :
        /\ PathParts(path)[i] # <<>>
        /\ <<Head(PathParts(path)[i])>> \in ignoredDirs

\* lines 69-79 (filepath.ToSlash leaves a "/"-separated path as it is)
shouldIgnorePath(path) ==
    \E i \in 1..Len(PathParts(path)) : PathParts(path)[i] \in ignoredDirs

\* --------------------------------------------------------------- isBinary
\* A file's bytes are a sequence of runs [byte, n]: n >= 1 copies of one byte.
\* open / read tell whether os.Open and f.Read succeed on it.
SampleSize == 8192

\* lines 90-95: the first SampleSize bytes of the file
RECURSIVE ReadSample(_, _)
ReadSample(runs, room) ==
    IF runs = <<>> \/ room = 0 THEN <<>>
    ELSE LET k == Min(Head(runs).n, room)
         IN  <<[byte |-> Head(runs).byte, n |-> k]>>
                 \o ReadSample(Tail(runs), room - k)

\* n of line 91, len(buf) of line 114
RECURSIVE SampleLen(_)
SampleLen(buf) == IF buf = <<>> THEN 0 ELSE Head(buf).n + SampleLen(Tail(buf))

\* line 103: bytes.IndexByte(buf, 0x00) != -1
HasNul(buf) == \E i \in 1..Len(buf) : buf[i].byte = 0

\* line 110
Printable(b) == b = 9 \/ b = 10 \/ b = 13 \/ (b >= 32 /\ b <= 126)

\* lines 108-113
RECURSIVE PrintableCount(_)
PrintableCount(buf) ==
    IF buf = <<>> THEN 0
    ELSE (IF Printable(Head(buf).byte) THEN Head(buf).n ELSE 0)
             + PrintableCount(Tail(buf))

\* Mutant: a sample that is exactly 95% printable counted as binary.
RatioBelowInclusive(printable, len) == 20 * printable <= 19 * len

\* lines 114-115: float64(printable)/float64(len) < 0.95.  For len <= 8192 a
\* quotient below 19/20 lies at least 1/(20*8192) below it, far more than the
\* rounding of the division and of the literal 0.95, and 19/20 itself rounds to
\* the literal, so the float comparison decides as the integer one does.
RatioBelow(printable, len) == 20 * printable < 19 * len

BinResult(binary, err) == [binary |-> binary, err |-> err]

\* lines 82-116
isBinary(file) ==
    IF ~file.open THEN BinResult(FALSE, TRUE)
    ELSE IF ~file.read THEN BinResult(FALSE, TRUE)
    ELSE LET buf == ReadSample(file.runs, SampleSize)
         IN  IF SampleLen(buf) = 0 THEN BinResult(FALSE, FALSE)
             ELSE IF HasNul(buf) THEN BinResult(TRUE, FALSE)
             ELSE BinResult(RatioBelow(PrintableCount(buf), SampleLen(buf)), FALSE)

\* ------------------------------------------------------ the repository
PathA == <<"a.txt">>
PathB == <<"b.txt">>
PathV == <<"vendor", "/", "lib.go">>
PathPool == {PathA, PathB, PathV}

TextX == <<"x", NL>>
TextY == <<"y", NL>>
TextHello == <<"h", "e", "l", "l", "o", NL>>

\* plumbing.Hash.String() of the blob holding a text: 40 hexadecimal digits
BlobHash(text) ==
    CASE text = TextX ->
           <<"5", "8", "7", "b", "e", "6", "b", "4", "c", "3",
             "f", "9", "3", "f", "9", "3", "c", "4", "8", "9",
             "c", "0", "1", "1", "1", "b", "b", "a", "5", "5",
             "9", "6", "1", "4", "7", "a", "2", "6", "c", "b">>
      [] text = TextY ->
           <<"9", "7", "5", "f", "b", "e", "c", "8", "2", "5",
             "6", "d", "3", "e", "8", "a", "3", "7", "9", "7",
             "e", "7", "a", "3", "6", "1", "1", "3", "8", "0",
             "f", "2", "7", "c", "4", "9", "f", "4", "a", "c">>
      [] text = TextHello ->
           <<"c", "e", "0", "1", "3", "6", "2", "5", "0", "3",
             "0", "b", "a", "8", "d", "b", "a", "9", "0", "6",
             "f", "7", "5", "6", "9", "6", "7", "f", "9", "e",
             "9", "c", "a", "3", "9", "4", "4", "6", "4", "a">>
      [] OTHER ->
           <<"e", "6", "9", "d", "e", "2", "9", "b", "b", "2",
             "d", "1", "d", "6", "4", "3", "4", "b", "8", "b",
             "2", "9", "a", "e", "7", "7", "5", "a", "d", "8",
             "c", "2", "e", "4", "8", "c", "5", "3", "9", "1">>
\* String() of the zero plumbing.Hash, the value of an unassigned hash variable
ZeroHash == [i \in 1..40 |-> "0"]
\* lines 440, 446, 451: hash.String()[:7]
Abbrev(hash) == SubSeq(hash, 1, 7)

\* git.StatusCode values of FileStatus.Staging; "NotInStatus": no status entry
StagingCodes ==
    {"Unmodified", "Untracked", "Modified", "Added", "Deleted", "Renamed", "Copied"}

\* HEAD-tree entry of a path: found or not, its text, and whether Contents() works
HeadPool ==
    { [found |-> FALSE, readable |-> FALSE, text |-> <<>>],
      [found |-> TRUE, readable |-> TRUE, text |-> TextX],
      [found |-> TRUE, readable |-> FALSE, text |-> TextX] }

\* index entry of a path and the state of its blob object
IdxPool ==
    { [entry |-> FALSE, blob |-> "ok", text |-> <<>>],
      [entry |-> TRUE, blob |-> "ok", text |-> TextY],
      [entry |-> TRUE, blob |-> "ok", text |-> TextHello],
      [entry |-> TRUE, blob |-> "nolookup", text |-> TextY],
      [entry |-> TRUE, blob |-> "noreader", text |-> TextY] }

\* the work-tree file of a path, which isBinary opens: a text file "x\n", a
\* file with a NUL byte, a file that cannot be opened, one that cannot be read
WorkText == [open |-> TRUE, read |-> TRUE,
             runs |-> <<[byte |-> 120, n |-> 1], [byte |-> 10, n |-> 1]>>]
WorkBinary == [open |-> TRUE, read |-> TRUE,
               runs |-> <<[byte |-> 127, n |-> 1], [byte |-> 0, n |-> 1]>>]
WorkMissing == [open |-> FALSE, read |-> FALSE, runs |-> <<>>]
WorkUnreadable == [open |-> TRUE, read |-> FALSE,
                   runs |-> <<[byte |-> 127, n |-> 1], [byte |-> 0, n |-> 1]>>]
BinPool == {WorkText, WorkBinary, WorkMissing, WorkUnreadable}

HeadX == [found |-> TRUE, readable |-> TRUE, text |-> TextX]
IdxY == [entry |-> TRUE, blob |-> "ok", text |-> TextY]

\* a.txt: every staging state with every HEAD and index state of a text file,
\* and every staging state of a file isBinary reports binary or cannot read
FilePoolA ==
    [staging : StagingCodes, head : HeadPool, idx : IdxPool, work : {WorkText}]
    \cup [staging : StagingCodes, head : {HeadX}, idx : {IdxY}, work : BinPool]

FilePoolB ==
    { [staging |-> st, head |-> HeadX, idx |-> IdxY, work |-> WorkText]
        : st \in {"NotInStatus", "Added", "Modified", "Deleted"} }

FilePoolV ==
    { [staging |-> st, head |-> [found |-> FALSE, readable |-> FALSE, text |-> <<>>],
       idx |-> IdxY, work |-> WorkText]
        : st \in {"NotInStatus", "Added"} }

\* which repository call fails: none, or one of repo.Worktree, w.Status,
\* repo.Head (no commits yet / another error), repo.CommitObject,
\* headCommit.Tree, repo.Storer.Index
AccessPool ==
    {"ok", "worktree", "status", "nocommits", "headerr", "commit", "tree", "index"}

Repos ==
    { [access |-> a, files |-> f] :
        a \in AccessPool,
        f \in { g \in [PathPool -> FilePoolA \cup FilePoolB \cup FilePoolV] :
                  /\ g[PathA] \in FilePoolA
                  /\ g[PathB] \in FilePoolB
                  /\ g[PathV] \in FilePoolV } }

MaxLinesPool == {-1, 0, MaxBudget - 1, MaxBudget}

NoError == [kind |-> "nil", op |-> "", limit |-> 0, actual |-> 0]
AccessError(op) == [kind |-> "access", op |-> op, limit |-> 0, actual |-> 0]
\* Mutant: the two numbers of the budget error given in the wrong order.
BudgetErrorSwapped(limit, actual) ==
    [kind |-> "budget", op |-> "", limit |-> actual, actual |-> limit]

\* line 465: the error naming cfg.maxLines and lineCount
BudgetError(limit, actual) ==
    [kind |-> "budget", op |-> "", limit |-> limit, actual |-> actual]

\* ------------------------------------------------------ getStagedChanges
Staging(path) == repo.files[path].staging
StatusPaths == {p \in PathPool : repo.files[p].staging # "NotInStatus"}

\* lines 407-416: (headContent, headHash) of a path
HeadSide(path) ==
    LET f == repo.files[path]
        hasTree == repo.access \notin {"nocommits", "headerr"}
    IN  IF f.staging # "Added" /\ hasTree /\ f.head.found
        THEN [content |-> IF f.head.readable THEN f.head.text ELSE <<>>,
              hash |-> BlobHash(f.head.text)]
        ELSE [content |-> <<>>, hash |-> ZeroHash]

\* lines 418-433: (stagedContent, stagedHash) of a path; the nil reader of a
\* failed blob.Reader() is handled by RenderStep
StagedSide(path) ==
    LET f == repo.files[path]
    IN  IF f.staging # "Deleted" /\ f.idx.entry
        THEN [content |-> IF f.idx.blob = "ok" THEN f.idx.text ELSE <<>>,
              hash |-> BlobHash(f.idx.text)]
        ELSE [content |-> <<>>, hash |-> ZeroHash]

\* lines 427-429: io.ReadAll on the nil reader a failed blob.Reader() leaves
ReaderPanics(path) ==
    LET f == repo.files[path]
    IN  f.staging # "Deleted" /\ f.idx.entry /\ f.idx.blob = "noreader"

\* Mutant: a deleted file given the header of a modified one.
FileHeaderNoDeleted(path, staging, headHash, stagedHash) ==
    LET diffLine == <<"diff --git a/">> \o path \o <<" b/">> \o path
    IN  IF staging = "Added" THEN
            << diffLine,
               <<"new file mode 100644">>,
               <<"index 0000000..">> \o Abbrev(stagedHash),
               <<"--- /dev/null">>,
               <<"+++ b/">> \o path >>
        ELSE
            << diffLine,
               <<"index ">> \o Abbrev(headHash) \o <<"..">> \o Abbrev(stagedHash)
                   \o <<" 100644">>,
               <<"--- a/">> \o path,
               <<"+++ b/">> \o path >>

\* lines 435-453: the header lines of a file's block; the hashes are cut to
\* seven characters here, as in the code
FileHeader(path, staging, headHash, stagedHash) ==
    LET diffLine == <<"diff --git a/">> \o path \o <<" b/">> \o path
    IN  IF staging = "Added" THEN
            << diffLine,
               <<"new file mode 100644">>,
               <<"index 0000000..">> \o Abbrev(stagedHash),
               <<"--- /dev/null">>,
               <<"+++ b/">> \o path >>
        ELSE IF staging = "Deleted" THEN
            << diffLine,
               <<"deleted file mode 100644">>,
               <<"index ">> \o Abbrev(headHash) \o <<"..0000000">>,
               <<"--- a/">> \o path,
               <<"+++ /dev/null">> >>
        ELSE
            << diffLine,
               <<"index ">> \o Abbrev(headHash) \o <<"..">> \o Abbrev(stagedHash)
                   \o <<" 100644">>,
               <<"--- a/">> \o path,
               <<"+++ b/">> \o path >>

\* lines 404-458: what one iteration of the render loop appends to patchBuf
FileBlock(path) ==
    FileHeader(path, Staging(path), HeadSide(path).hash, StagedSide(path).hash)
        \o generateUnifiedDiffContent(HeadSide(path).content, StagedSide(path).content)

\* lines 357-369: whether the filter loop calls isBinary on a status entry
ChecksBinary(path) ==
    /\ Staging(path) \notin {"Unmodified", "Untracked"}
    /\ ~shouldIgnorePath(path)
    /\ Staging(path) # "Deleted"

\* Mutant: a file isBinary fails on is skipped like a binary one.
SkippedAsBinaryOrError(path) ==
    LET r == isBinary(repo.files[path].work) IN r.err \/ r.binary

\* lines 369-375: isBinary gave no error and reported binary
SkippedAsBinary(path) ==
    LET r == isBinary(repo.files[path].work) IN ~r.err /\ r.binary

\* Mutant: the binary test applied to deleted files as well.
IncludedBinaryTestOnAll(path) ==
    /\ Staging(path) \notin {"Unmodified", "Untracked"}
    /\ ~shouldIgnorePath(path)
    /\ ~SkippedAsBinary(path)

\* lines 355-376: whether the filter loop keeps a status entry
Included(path) ==
    /\ Staging(path) \notin {"Unmodified", "Untracked"}
    /\ ~shouldIgnorePath(path)
    /\ (Staging(path) # "Deleted" => ~SkippedAsBinary(path))

\* Mutant: the budget test with >= for >.
OverBudgetInclusive(limit, lineCount) == limit > 0 /\ lineCount >= limit

\* line 464: the budget test
OverBudget(limit, lineCount) == limit > 0 /\ lineCount > limit

\* Mutant: the budget error returned together with what was rendered so far.
BudgetResultPartial(limit, buf) ==
    IF OverBudget(limit, Len(buf))
    THEN [doc |-> buf, err |-> BudgetError(limit, Len(buf))]
    ELSE [doc |-> buf, err |-> NoError]

\* lines 460-469: lineCount := strings.Count(patchStr, "\n"), then the return
BudgetResult(limit, buf) ==
    IF OverBudget(limit, Len(buf))
    THEN [doc |-> <<>>, err |-> BudgetError(limit, Len(buf))]
    ELSE [doc |-> buf, err |-> NoError]

\* Mutant: the render loop also left as soon as the lines so far pass the budget.
LoopDoneOrOver ==
    \/ rendered = Len(filesToInclude)
    \/ rendered > 0 /\ OverBudget(maxLines, Len(patchBuf))

\* line 404: the render loop has gone through filesToInclude
LoopDone == rendered = Len(filesToInclude)

Return(doc, err) ==
    /\ ret' = [doc |-> doc, err |-> err]
    /\ pc' = "done"

\* Mutant: an error of repo.Head() returned like the other failures.
HeadTreeFailsOnAnyError(access) ==
    access \in {"nocommits", "headerr", "commit", "tree"}

\* lines 334-350: the failures on the way to the HEAD tree that return an
\* error; an error of repo.Head() itself takes the else branch (empty tree)
HeadTreeFails(access) == access \in {"commit", "tree"}

\* lines 320-350: worktree, status, HEAD commit and tree
Begin ==
    /\ pc = "start"
    /\ IF repo.access \in {"worktree", "status"} \/ HeadTreeFails(repo.access)
       THEN /\ Return(<<>>, AccessError(repo.access))
            /\ UNCHANGED remaining
       ELSE /\ pc' = "filter"
            /\ remaining' = StatusPaths
            /\ UNCHANGED ret
    /\ UNCHANGED <<repo, maxLines, filesToInclude, rendered, patchBuf, binaryCalls>>
    /\ UNCHANGED pureVars

\* lines 355-381: one iteration of "for path, fileStatus := range status"; a Go
\* map is ranged over in no fixed order
FilterStep ==
    /\ pc = "filter"
    /\ \E path \in remaining :
        /\ remaining' = remaining \ {path}
        /\ binaryCalls' =
              IF ChecksBinary(path) THEN binaryCalls \cup {path} ELSE binaryCalls
        /\ filesToInclude' =
              IF Included(path) THEN Append(filesToInclude, path) ELSE filesToInclude
    /\ UNCHANGED <<repo, maxLines, pc, rendered, patchBuf, ret>>
    /\ UNCHANGED pureVars

\* lines 383-398: nothing staged, or load the index
AfterFilter ==
    /\ pc = "filter"
    /\ remaining = {}
    /\ IF Len(filesToInclude) = 0 THEN Return(<<>>, NoError)
       ELSE IF repo.access = "index" THEN Return(<<>>, AccessError("index"))
       ELSE pc' = "render" /\ UNCHANGED ret
    /\ UNCHANGED <<repo, maxLines, remaining, filesToInclude, rendered, patchBuf, binaryCalls>>
    /\ UNCHANGED pureVars

\* lines 404-458: one iteration of "for _, path := range filesToInclude"
RenderStep ==
    /\ pc = "render"
    /\ ~LoopDone
    /\ LET path == filesToInclude[rendered + 1]
       IN  IF ReaderPanics(path)
           THEN pc' = "panic" /\ UNCHANGED <<rendered, patchBuf>>
           ELSE /\ patchBuf' = patchBuf \o FileBlock(path)
                /\ rendered' = rendered + 1
                /\ UNCHANGED pc
    /\ UNCHANGED <<repo, maxLines, remaining, filesToInclude, ret, binaryCalls>>
    /\ UNCHANGED pureVars

\* lines 460-469: count the lines, test the budget, return
CheckBudget ==
    /\ pc = "render"
    /\ LoopDone
    /\ ret' = BudgetResult(maxLines, patchBuf)
    /\ pc' = "done"
    /\ UNCHANGED <<repo, maxLines, remaining, filesToInclude, rendered, patchBuf, binaryCalls>>
    /\ UNCHANGED pureVars

\* ------------------------------------------- loadConfigFile, getConfig
DefaultMaxLines == 10000
OllamaEndpoint == "http://localhost:11434"
OpenRouterEndpoint == "https://openrouter.ai/api/v1"
OllamaModel == "llama3.2"
OpenRouterModel == "anthropic/claude-4.5-sonnet"

\* fileConfig{} and config{}: every field at its zero value
ZeroConfig ==
    [provider |-> "", apiKey |-> "", apiEndpoint |-> "", model |-> "",
     debug |-> FALSE, maxLines |-> 0]

\* lines 189-196: what loadConfigFile returns when there is no config file
DefaultFileConfig ==
    [provider |-> "ollama", apiKey |-> "", apiEndpoint |-> OllamaEndpoint,
     model |-> OllamaModel, debug |-> FALSE, maxLines |-> DefaultMaxLines]

\* lines 209-229: the fields yaml.Unmarshal left at their zero value get defaults
FileDefaults(y) ==
    LET provider == IF y.provider = "" THEN "ollama" ELSE y.provider
        endpoint ==
            IF y.apiEndpoint # "" THEN y.apiEndpoint
            ELSE IF provider = "ollama" THEN OllamaEndpoint
            ELSE IF provider = "openrouter" THEN OpenRouterEndpoint
            ELSE ""
        model ==
            IF y.model # "" THEN y.model
            ELSE IF provider = "ollama" THEN OllamaModel
            ELSE OpenRouterModel
    IN  [provider |-> provider, apiKey |-> y.apiKey, apiEndpoint |-> endpoint,
         model |-> model, debug |-> y.debug,
         maxLines |-> IF y.maxLines = 0 THEN DefaultMaxLines ELSE y.maxLines]

\* lines 178-232.  file.state: "nodir" os.UserConfigDir fails, "absent" no
\* config file, "unreadable" os.ReadFile fails, "badyaml" yaml.Unmarshal
\* fails, "ok" the file parses to file.yaml
loadConfigFile(file) ==
    IF file.state = "nodir" THEN [cfg |-> ZeroConfig, err |-> "configdir"]
    ELSE IF file.state = "absent" THEN [cfg |-> DefaultFileConfig, err |-> "nil"]
    ELSE IF file.state = "unreadable" THEN [cfg |-> ZeroConfig, err |-> "read"]
    ELSE IF file.state = "badyaml" THEN [cfg |-> ZeroConfig, err |-> "yaml"]
    ELSE [cfg |-> FileDefaults(file.yaml), err |-> "nil"]

\* lines 274-287: the model (endpoint) of the provider the -provider flag names
ProviderModel(provider, current) ==
    IF provider = "ollama" THEN OllamaModel
    ELSE IF provider = "openrouter" THEN OpenRouterModel
    ELSE current
ProviderEndpoint(provider, current) ==
    IF provider = "ollama" THEN OllamaEndpoint
    ELSE IF provider = "openrouter" THEN OpenRouterEndpoint
    ELSE current

\* lines 289-294: a string flag, "" when not given, replaces the field
FlagOverride(flag, current) == IF flag # "" THEN flag ELSE current

\* Mutant: the API key demanded whatever the provider.
KeyMissingAnyProvider(provider, apiKey) == apiKey = ""

\* lines 311-314: OpenRouter needs an API key
KeyMissing(provider, apiKey) == provider = "openrouter" /\ apiKey = ""

ConfigResult(cfg, help, err) == [cfg |-> cfg, help |-> help, err |-> err]

\* lines 234-317.  args is the command line as the flag set sees it: each
\* flag given or not with its value, -help, a parse failure, arguments left
\* over after the flags
getConfig(file, args, envKey) ==
    LET loaded == loadConfigFile(file)
        fc == loaded.cfg
        providerFlag == IF args.provider.given THEN args.provider.value ELSE ""
        modelFlag == IF args.model.given THEN args.model.value ELSE ""
        endpointFlag == IF args.endpoint.given THEN args.endpoint.value ELSE ""
        provider == IF providerFlag # "" THEN providerFlag ELSE fc.provider
        model ==
            FlagOverride(modelFlag,
                IF providerFlag # "" /\ modelFlag = ""
                THEN ProviderModel(provider, fc.model) ELSE fc.model)
        endpoint ==
            FlagOverride(endpointFlag,
                IF providerFlag # "" /\ endpointFlag = ""
                THEN ProviderEndpoint(provider, fc.apiEndpoint) ELSE fc.apiEndpoint)
        apiKey == IF fc.apiKey = "" THEN envKey ELSE fc.apiKey
        cfg == [provider |-> provider, apiKey |-> apiKey, apiEndpoint |-> endpoint,
                model |-> model,
                debug |-> IF args.debug.given THEN args.debug.value ELSE fc.debug,
                maxLines |-> IF args.maxLines.given THEN args.maxLines.value
                             ELSE fc.maxLines]
    IN  IF loaded.err # "nil" THEN ConfigResult(ZeroConfig, FALSE, "loadConfigFile")
        ELSE IF args.parse # "ok" THEN ConfigResult(ZeroConfig, FALSE, "parse")
        ELSE IF args.help THEN ConfigResult(ZeroConfig, TRUE, "nil")
        ELSE IF args.extra THEN ConfigResult(ZeroConfig, FALSE, "unexpected")
        ELSE IF provider \notin {"openrouter", "ollama"}
             THEN ConfigResult(ZeroConfig, FALSE, "provider")
        ELSE IF KeyMissing(provider, apiKey)
             THEN ConfigResult(ZeroConfig, FALSE, "apikey")
        ELSE ConfigResult(cfg, FALSE, "nil")

\* a flag of the command line: given or not, and its value
Flag(given, value) == [given |-> given, value |-> value]
NoArgs ==
    [parse |-> "ok", help |-> FALSE, extra |-> FALSE,
     provider |-> Flag(FALSE, ""), model |-> Flag(FALSE, ""),
     endpoint |-> Flag(FALSE, ""), debug |-> Flag(FALSE, FALSE),
     maxLines |-> Flag(FALSE, 0)]
NoFile == [state |-> "absent", yaml |-> ZeroConfig]

DiffIdle ==
    /\ oldContent = <<>>
    /\ newContent = <<>>
    /\ diffOut = <<>>
    /\ diffPc = "idle"

IgnIdle ==
    /\ ignPath = <<>>
    /\ ignOut = FALSE
    /\ ignPc = "idle"

BinIdle ==
    /\ binFile = WorkMissing
    /\ binOut = BinResult(FALSE, FALSE)
    /\ binPc = "idle"

CfgIdle ==
    /\ cfgFile = NoFile
    /\ cfgArgs = NoArgs
    /\ cfgEnvKey = ""
    /\ cfgOut = ConfigResult(ZeroConfig, FALSE, "nil")
    /\ cfgPc = "idle"

RunIdle ==
    /\ runPc = "idle"
    /\ runCfg = ConfigResult(ZeroConfig, FALSE, "nil")
    /\ repoOpened = FALSE
    /\ runOutput = <<>>
    /\ runErr = "nil"
    /\ apiCalls = 0

\* the call under way is the first one on repo
FirstCall ==
    /\ firstRet = [doc |-> <<>>, err |-> NoError]
    /\ invocation = 1

CollectIdle ==
    /\ repo = [access |-> "ok", files |-> <<>>]
    /\ maxLines = 0
    /\ pc = "idle"
    /\ remaining = {}
    /\ filesToInclude = <<>>
    /\ rendered = 0
    /\ patchBuf = <<>>
    /\ ret = [doc |-> <<>>, err |-> NoError]
    /\ binaryCalls = {}

Init ==
    /\ repo \in Repos
    /\ maxLines \in MaxLinesPool
    /\ pc = "start"
    /\ remaining = {}
    /\ filesToInclude = <<>>
    /\ rendered = 0
    /\ patchBuf = <<>>
    /\ ret = [doc |-> <<>>, err |-> NoError]
    /\ binaryCalls = {}
    /\ DiffIdle
    /\ IgnIdle
    /\ BinIdle
    /\ CfgIdle
    /\ RunIdle
    /\ FirstCall

Next ==
    \/ Begin
    \/ FilterStep
    \/ AfterFilter
    \/ RenderStep
    \/ CheckBudget

Spec == Init /\ [][Next]_vars

\* ------------------------------------------------ the synthesizer alone
DiffInit ==
    /\ oldContent \in Texts
    /\ newContent \in Texts
    /\ diffOut = <<>>
    /\ diffPc = "call"
    /\ CollectIdle
    /\ IgnIdle
    /\ BinIdle
    /\ CfgIdle
    /\ RunIdle
    /\ FirstCall

DiffCall ==
    /\ diffPc = "call"
    /\ diffOut' = generateUnifiedDiffContent(oldContent, newContent)
    /\ diffPc' = "ret"
    /\ UNCHANGED <<oldContent, newContent>>
    /\ UNCHANGED <<collectVars, ignVars, binVars, lateVars>>

DiffNext == DiffCall

SpecDiff == DiffInit /\ [][DiffNext]_vars

\* ---------------------------------------------- shouldIgnorePath alone
\* the pieces paths are made of: the ignored names, two other names, and "/"
PathPieces ==
    {"vendor", "node_modules", ".git", "dist", "build", "target", ".next", ".nuxt",
     "__pycache__", ".pytest_cache", ".tox", "venv", ".venv", "_backup", "src", "/"}

Paths == UNION {[1..n -> PathPieces] : n \in 0..MaxPathLen}

IgnInit ==
    /\ ignPath \in Paths
    /\ ignOut = FALSE
    /\ ignPc = "call"
    /\ CollectIdle
    /\ DiffIdle
    /\ BinIdle
    /\ CfgIdle
    /\ RunIdle
    /\ FirstCall

IgnCall ==
    /\ ignPc = "call"
    /\ ignOut' = shouldIgnorePath(ignPath)
    /\ ignPc' = "ret"
    /\ UNCHANGED ignPath
    /\ UNCHANGED <<collectVars, diffVars, binVars, lateVars>>

IgnNext == IgnCall

SpecIgnore == IgnInit /\ [][IgnNext]_vars

\* ------------------------------------------------------ isBinary alone
ByteValues == {0, 9, 10, 13, 31, 32, 126, 127}
RunLengths == {1, 19, 8191, 8192}
RunPool == [byte : ByteValues, n : RunLengths]
RunSeqs == UNION {[1..k -> RunPool] : k \in 0..MaxRuns}

\* a file that opens and reads, one whose read fails, one that does not open
BinFiles ==
    { [open |-> io[1], read |-> io[2], runs |-> r] :
        io \in {<<TRUE, TRUE>>, <<TRUE, FALSE>>, <<FALSE, FALSE>>}, r \in RunSeqs }

BinInit ==
    /\ binFile \in BinFiles
    /\ binOut = BinResult(FALSE, FALSE)
    /\ binPc = "call"
    /\ CollectIdle
    /\ DiffIdle
    /\ IgnIdle
    /\ CfgIdle
    /\ RunIdle
    /\ FirstCall

BinCall ==
    /\ binPc = "call"
    /\ binOut' = isBinary(binFile)
    /\ binPc' = "ret"
    /\ UNCHANGED binFile
    /\ UNCHANGED <<collectVars, diffVars, ignVars, lateVars>>

BinNext == BinCall

SpecBinary == BinInit /\ [][BinNext]_vars

\* ------------------------------------------------ reading a rendered text
IsHeader(line) == line[1] = "@@ -"
Tagged(out, tag) == SelectSeq(out, LAMBDA l : l[1] = tag)
Untag(ls) == [i \in 1..Len(ls) |-> Tail(ls[i])]
Removed(out) == Untag(Tagged(out, "-"))
Added(out) == Untag(Tagged(out, "+"))
Body(out) == SelectSeq(out, LAMBDA l : ~IsHeader(l))
\* the lines of the old side a hunk shows (context and removed), and of the new
OldSide(out) == Untag(SelectSeq(out, LAMBDA l : l[1] \in {" ", "-"}))
NewSide(out) == Untag(SelectSeq(out, LAMBDA l : l[1] \in {" ", "+"}))
\* the number a header piece spells
NumOf(piece) == CHOOSE n \in 0..(MaxLen + 2) : ToString(n) = piece

\* the lines of a text that end in a newline: all pieces but the last
TerminatedLines(s) == LET p == Split(s) IN SubSeq(p, 1, Len(p) - 1)
EndsInNL(s) == s # <<>> /\ s[Len(s)] = NL

\* prefix and suffix as the specification defines them (section 4.4, steps 2-3)
LeadingEqual(a, b) ==
    CHOOSE k \in 0..Min(Len(a), Len(b)) :
        /\ \A i \in 1..k : a[i] = b[i]
        /\ (k < Min(Len(a), Len(b)) => a[k + 1] # b[k + 1])
TrailingEqual(a, b) ==
    LET room == Min(Len(a), Len(b)) - LeadingEqual(a, b)
    IN  CHOOSE k \in 0..room :
            /\ \A i \in 0..(k - 1) : a[Len(a) - i] = b[Len(b) - i]
            /\ (k < room => a[Len(a) - k] # b[Len(b) - k])

oldL == SplitLines(oldContent)
newL == SplitLines(newContent)
pre == LeadingEqual(oldL, newL)
suf == TrailingEqual(oldL, newL)
Returned == diffPc = "ret"

\* ------------------------------------------------ reading a collection
Done == pc = "done"
Succeeded == Done /\ ret.err.kind = "nil"
HasLine(doc, line) == \E i \in 1..Len(doc) : doc[i] = line
\* the included files are exactly the one path p
OnlyFile(p) == filesToInclude = <<p>>
\* lines of the blocks of the first k included files
RECURSIVE PrefixTotal(_)
PrefixTotal(k) ==
    IF k = 0 THEN 0 ELSE PrefixTotal(k - 1) + Len(FileBlock(filesToInclude[k]))
TotalRendered == PrefixTotal(Len(filesToInclude))
\* the render loop ran to its end, so the budget test was made
BudgetTested == Done /\ Len(filesToInclude) > 0 /\ rendered = Len(filesToInclude)

\* C1: in a repository with no commits, a single staged Added text file yields
\* a document holding "new file mode ...", "--- /dev/null", "+++ b/<path>" and
\* one '+' hunk line per content line ("hello\n" gives "+hello").
C1_AddedFileInNewRepo ==
    \A p \in PathPool :
        (/\ Succeeded /\ repo.access = "nocommits" /\ OnlyFile(p)
         /\ Staging(p) = "Added"
         /\ repo.files[p].idx.entry /\ repo.files[p].idx.blob = "ok") =>
            /\ HasLine(ret.doc, <<"new file mode 100644">>)
            /\ HasLine(ret.doc, <<"--- /dev/null">>)
            /\ HasLine(ret.doc, <<"+++ b/">> \o p)
            /\ Added(ret.doc) = TerminatedLines(repo.files[p].idx.text)

\* C2: a file staged as Modified whose HEAD text is one newline-terminated line
\* and whose staged text is a different one ("x\n" to "y\n") has a hunk
\* showing "-x" followed by "+y", and no context line.
C2_ModifiedOneLine ==
    \A p \in PathPool :
        (/\ Succeeded /\ repo.access = "ok" /\ OnlyFile(p)
         /\ Staging(p) = "Modified"
         /\ repo.files[p].head = HeadX /\ repo.files[p].idx = IdxY) =>
            /\ \E i \in 1..(Len(ret.doc) - 1) :
                   ret.doc[i] = <<"-", "x">> /\ ret.doc[i + 1] = <<"+", "y">>
            /\ Tagged(ret.doc, " ") = <<>>

\* C3: for differing texts, every line of the old changed region
\* old[prefix : len(old)-suffix) is emitted exactly once as a '-' line and every
\* line of the new changed region exactly once as a '+' line, in order.
C3_ChangedRegionEmitted ==
    (Returned /\ oldContent # newContent) =>
        /\ Removed(diffOut) = SubSeq(oldL, pre + 1, Len(oldL) - suf)
        /\ Added(diffOut) = SubSeq(newL, pre + 1, Len(newL) - suf)

\* C4: diffing against an empty side lists exactly the newline-terminated lines
\* of the other side: ("", new) gives no removed line and one added line per
\* line of new; (old, "") gives the mirror.
C4_EmptySideListsOther ==
    /\ (Returned /\ oldContent = <<>> /\ EndsInNL(newContent)) =>
           /\ Removed(diffOut) = <<>>
           /\ Added(diffOut) = TerminatedLines(newContent)
    /\ (Returned /\ newContent = <<>> /\ EndsInNL(oldContent)) =>
           /\ Added(diffOut) = <<>>
           /\ Removed(diffOut) = TerminatedLines(oldContent)

\* C5: the hunk is a valid patch: its context and '-' lines are the old lines of
\* the window [oldStart, oldStart+oldCount) the header announces, and replacing
\* that window by the context and '+' lines turns the old lines into the new.
C5_HunkIsValidPatch ==
    (Returned /\ diffOut # <<>>) =>
        LET h == diffOut[1]
            a == NumOf(h[2])
            b == NumOf(h[4])
        IN  /\ OldSide(diffOut) = SubSeq(oldL, a, a + b - 1)
            /\ SubSeq(oldL, 1, a - 1) \o NewSide(diffOut)
                   \o SubSeq(oldL, a + b, Len(oldL)) = newL

\* C6: generateUnifiedDiffContent(a, a) is the empty text for every a.
C6_SameTextEmptyDiff ==
    (Returned /\ oldContent = newContent) => diffOut = <<>>

C6_Witness ==
    Returned /\ oldContent = newContent /\ EndsInNL(oldContent) /\ Len(oldL) >= 3

\* C7: when old and new differ the output holds exactly one hunk header, its
\* first line, "@@ -a,b +c,d @@" with a = c = max(0, prefix-3)+1,
\* b = min(prefix,3) + (len(old)-prefix-suffix) + min(suffix,3) and
\* d = min(prefix,3) + (len(new)-prefix-suffix) + min(suffix,3).
C7_OneHeaderWithWindow ==
    (Returned /\ oldContent # newContent) =>
        LET a == Max(0, pre - 3) + 1
            b == Min(pre, 3) + (Len(oldL) - pre - suf) + Min(suf, 3)
            d == Min(pre, 3) + (Len(newL) - pre - suf) + Min(suf, 3)
        IN  /\ diffOut # <<>>
            /\ diffOut[1] = <<"@@ -", ToString(a), ",", ToString(b),
                              " +", ToString(a), ",", ToString(d), " @@">>
            /\ \A i \in 2..Len(diffOut) : ~IsHeader(diffOut[i])

\* a differing pair with three lines of leading context and one changed line
C7_Witness ==
    /\ Returned /\ oldContent # newContent
    /\ pre = 3 /\ Len(oldL) - pre - suf = 1 /\ Len(diffOut) > 1

\* C8: the budget comparison is strict over the total number of rendered lines:
\* the call succeeds when the total equals maxLines, fails with a budget error
\* when it is maxLines+1 or more (maxLines > 0), and never fails on the budget
\* when maxLines <= 0.
C8_BudgetStrict ==
    /\ (Done /\ ret.err.kind = "budget") => BudgetTested
    /\ BudgetTested =>
          /\ (maxLines > 0 /\ TotalRendered >= maxLines + 1) => ret.err.kind = "budget"
          /\ TotalRendered <= maxLines => Succeeded /\ Len(ret.doc) = TotalRendered
          /\ maxLines <= 0 => Succeeded /\ Len(ret.doc) = TotalRendered

\* a collection whose total is exactly a positive maxLines, returned whole
C8_Witness ==
    BudgetTested /\ maxLines > 0 /\ TotalRendered = maxLines /\ ret.doc = patchBuf

\* C9: whenever getStagedChanges returns an error (budget or repository
\* access), the returned document is the empty string.
C9_NoPartialDocument ==
    (Done /\ ret.err.kind # "nil") => ret.doc = <<>>

\* a budget error returned after blocks had been rendered
C9_Witness ==
    Done /\ ret.err.kind = "budget" /\ Len(patchBuf) > 0 /\ ret.doc = <<>>

\* C10 as stated: the budget is tested after every rendered block, so no file
\* is rendered once the running total has passed maxLines.
C10_AbortAsSoonAsOver ==
    \A k \in 1..(rendered - 1) : ~OverBudget(maxLines, PrefixTotal(k))

\* C10, amended: the budget is tested once, after the render loop: a budget
\* error is returned only when every included file has been rendered, it
\* carries the total of all their lines, and it is returned whenever that
\* total passes a positive maxLines.
C10_BudgetTestedOnceAtEnd ==
    /\ (Done /\ ret.err.kind = "budget") =>
          /\ rendered = Len(filesToInclude)
          /\ ret.err.actual = TotalRendered
          /\ ret.doc = <<>>
    /\ (BudgetTested /\ OverBudget(maxLines, TotalRendered)) => ret.err.kind = "budget"
    /\ pc = "render" => ret.err.kind = "nil"

\* a second file rendered although the first block alone passed the budget
C10_Witness ==
    /\ Done /\ ret.err.kind = "budget" /\ rendered = 2
    /\ OverBudget(maxLines, PrefixTotal(1))

\* C11: the budget error carries the configured limit (maxLines) and the
\* measured total of rendered lines.
C11_BudgetErrorCarriesBoth ==
    (Done /\ ret.err.kind = "budget") =>
        /\ ret.err.limit = maxLines
        /\ ret.err.actual = TotalRendered
        /\ ret.err.actual > ret.err.limit

\* a budget error of a document one line over the limit
C11_Witness ==
    /\ Done /\ ret.err.kind = "budget"
    /\ ret.err.limit = MaxBudget - 1 /\ ret.err.actual = MaxBudget

\* the number of blocks a document holds for a path
DiffLine(p) == <<"diff --git a/">> \o p \o <<" b/">> \o p
BlockCount(doc, p) == Len(SelectSeq(doc, LAMBDA l : l = DiffLine(p)))
\* a status entry that is staged, not under an ignored directory, and either
\* deleted or not reported binary
WantsBlock(p) ==
    /\ p \in StatusPaths
    /\ Staging(p) \notin {"Unmodified", "Untracked"}
    /\ ~shouldIgnorePath(p)
    /\ (Staging(p) = "Deleted" \/ ~isBinary(repo.files[p].work).binary)

\* C12: a status entry gets a block in the document iff its staging state is
\* neither Unmodified nor Untracked, its path is not ignored, and it is Deleted
\* or not reported binary; such an entry gets exactly one block; isBinary is
\* never called on a Deleted path.
C12_BlockIffStagedTextOrDeleted ==
    /\ \A p \in PathPool : Staging(p) = "Deleted" => p \notin binaryCalls
    /\ Succeeded =>
          \A p \in PathPool :
              BlockCount(ret.doc, p) = (IF WantsBlock(p) THEN 1 ELSE 0)

\* a deleted file whose work-tree file is binary, with its block, isBinary
\* having been called on another path only
C12_Witness ==
    /\ Succeeded
    /\ Staging(PathA) = "Deleted" /\ repo.files[PathA].work = WorkBinary
    /\ BlockCount(ret.doc, PathA) = 1
    /\ binaryCalls = {PathB}

\* the only staged entry is vendor/lib.go, Added
OnlyVendorStaged ==
    /\ Staging(PathV) = "Added"
    /\ \A p \in PathPool \ {PathV} :
           Staging(p) \in {"NotInStatus", "Unmodified", "Untracked"}
\* the repository calls made before the filter loop succeed
StatusAndHeadRead == repo.access \notin {"worktree", "status", "commit", "tree"}

\* C13: a staged path under an ignored directory (vendor/lib.go, Added) is
\* excluded entirely: it is never included, no rendered line names it, and a
\* collection whose only staged paths are ignored returns the empty document
\* without a budget error for any maxLines.
C13_IgnoredPathExcluded ==
    /\ \A i \in 1..Len(filesToInclude) : filesToInclude[i] # PathV
    /\ \A i \in 1..Len(patchBuf) :
           \A j \in 1..Len(patchBuf[i]) : patchBuf[i][j] # "vendor"
    /\ (Done /\ OnlyVendorStaged /\ StatusAndHeadRead) =>
           /\ ret = [doc |-> <<>>, err |-> NoError]
           /\ patchBuf = <<>>

\* such a collection returned under a positive budget
C13_Witness ==
    Done /\ OnlyVendorStaged /\ StatusAndHeadRead /\ maxLines > 0 /\ remaining = {}

\* the built-in names, as the specification lists them (section 4.1)
BuiltInNames ==
    {"vendor", "node_modules", ".git", "dist", "build", "target", ".next", ".nuxt",
     "__pycache__", ".pytest_cache", ".tox", "venv", ".venv"}
\* pieces i..j of a path are one of its "/"-delimited segments
IsSegment(P, i, j) ==
    /\ \A k \in i..j : P[k] # "/"
    /\ (i = 1 \/ P[i - 1] = "/")
    /\ (j = Len(P) \/ P[j + 1] = "/")
\* some segment is exactly one built-in name
HasIgnoredSegment(P) ==
    \E i \in 1..Len(P) : IsSegment(P, i, i) /\ P[i] \in BuiltInNames

\* C14: shouldIgnorePath(P) is true iff some "/"-delimited segment of P is
\* exactly one of the built-in names; a segment that only begins with or holds
\* such a name is not ignored, a matching segment at any depth is.
C14_IgnoredIffExactSegment ==
    ignPc = "ret" => (ignOut <=> HasIgnoredSegment(ignPath))

\* "vendor_backup/": a segment that begins with an ignored name, not ignored
C14_Witness ==
    ignPc = "ret" /\ ignPath = <<"vendor", "_backup", "/">> /\ ~ignOut

\* the sample of a file: how many bytes of run k lie in its first 8192 bytes
RECURSIVE RunSum(_, _)
RunSum(runs, k) == IF k = 0 THEN 0 ELSE RunSum(runs, k - 1) + runs[k].n
InSample(runs, k) == Max(0, Min(runs[k].n, 8192 - RunSum(runs, k - 1)))
SampleLength(runs) == Min(RunSum(runs, Len(runs)), 8192)
IsPrintableByte(b) == b \in {9, 10, 13} \cup (32..126)
RECURSIVE PrintableInSample(_, _)
PrintableInSample(runs, k) ==
    IF k = 0 THEN 0
    ELSE PrintableInSample(runs, k - 1)
             + (IF IsPrintableByte(runs[k].byte) THEN InSample(runs, k) ELSE 0)
NulInSample(runs) ==
    \E k \in 1..Len(runs) : runs[k].byte = 0 /\ InSample(runs, k) > 0
BinReturned == binPc = "ret"
BinReadable == binFile.open /\ binFile.read

Filtered == pc \in {"render", "done", "panic"} /\ remaining = {} /\ StatusAndHeadRead
\* a staged, not ignored, not deleted entry whose work-tree file cannot be
\* opened or cannot be read
BinaryCheckFails(p) ==
    /\ Staging(p) \notin {"NotInStatus", "Unmodified", "Untracked", "Deleted"}
    /\ ~HasIgnoredSegment(p)
    /\ (~repo.files[p].work.open \/ ~repo.files[p].work.read)

\* C16: isBinary returns an error when the file cannot be opened or read; the
\* collector then treats the path as non-binary: it is included, and the
\* collection goes on with the other files, each of which keeps its block.
C16_BinaryCheckFailureKeepsFile ==
    \A p \in PathPool :
        BinaryCheckFails(p) =>
            /\ isBinary(repo.files[p].work).err
            /\ Filtered => \E i \in 1..Len(filesToInclude) : filesToInclude[i] = p
            /\ Succeeded =>
                  \A q \in PathPool :
                      BlockCount(ret.doc, q) = (IF q = p \/ WantsBlock(q) THEN 1 ELSE 0)

\* a.txt cannot be opened, and the document holds its block and that of b.txt
C16_Witness ==
    /\ Succeeded /\ BinaryCheckFails(PathA) /\ repo.files[PathA].work = WorkMissing
    /\ BlockCount(ret.doc, PathA) = 1
    /\ BlockCount(ret.doc, PathB) = 1

\* an included file one of whose content-resolution steps fails: the HEAD
\* tree has no such file or cannot read it, or the index has no entry, no
\* blob object, or a blob whose reader cannot be opened
ResolutionFails(p) ==
    LET f == repo.files[p]
    IN  \/ f.staging # "Added" /\ (~f.head.found \/ ~f.head.readable)
        \/ f.staging # "Deleted" /\ (~f.idx.entry \/ f.idx.blob # "ok")
\* the render loop went through all of filesToInclude
AllRendered == rendered = Len(filesToInclude)

\* C17: a content-resolution failure of an included file never aborts the
\* collection: getStagedChanges never crashes, and once the filter loop kept
\* files and the index was loaded it goes through all of them and returns
\* with no error other than the budget error.
C17_ResolutionFailureNeverAborts ==
    /\ pc # "panic"
    /\ (Done /\ StatusAndHeadRead /\ repo.access # "index"
          /\ \E i \in 1..Len(filesToInclude) : ResolutionFails(filesToInclude[i]))
        => /\ AllRendered
           /\ ret.err.kind \in {"nil", "budget"}

\* the repository-access failures named fatal: w.Status, repo.Head failing
\* for another reason than a repository without commits, repo.CommitObject,
\* headCommit.Tree
FatalAccess == {"status", "headerr", "commit", "tree"}

\* C18: a repository-access failure (status, HEAD for a reason other than no
\* commits yet, HEAD commit, HEAD tree) makes getStagedChanges return an
\* error naming the failed call and no document, before any file is looked at.
C18_RepositoryAccessFatal ==
    repo.access \in FatalAccess =>
        /\ pc \in {"start", "done"}
        /\ Done => /\ ret.err = AccessError(repo.access)
                   /\ ret.doc = <<>>

\* the document made of the blocks of the first k included files when every
\* HEAD side is empty: zero hash, empty old text
RECURSIVE EmptyHeadDoc(_)
EmptyHeadDoc(k) ==
    IF k = 0 THEN <<>>
    ELSE LET p == filesToInclude[k]
         IN  EmptyHeadDoc(k - 1)
                \o FileHeader(p, Staging(p), ZeroHash, StagedSide(p).hash)
                \o generateUnifiedDiffContent(<<>>, StagedSide(p).content)
\* no staged blob of the repository has a reader that cannot be opened
ReadersOpen == \A p \in PathPool : ~ReaderPanics(p)

\* C19: a repository with no commits yet is not an error: the collection goes
\* past the HEAD lookup, renders every included file against empty HEAD
\* content (zero hash, empty old text) and returns with no error other than
\* the budget error.
C19_NoCommitsIsNotAnError ==
    (repo.access = "nocommits" /\ ReadersOpen) =>
        /\ pc # "panic"
        /\ Done => /\ ret.err.kind \in {"nil", "budget"}
                   /\ AllRendered
        /\ Succeeded => ret.doc = EmptyHeadDoc(Len(filesToInclude))

\* no commits, a.txt and b.txt staged as Added, both rendered
C19_Witness ==
    /\ repo.access = "nocommits" /\ ReadersOpen /\ Succeeded
    /\ Staging(PathA) = "Added" /\ Staging(PathB) = "Added"
    /\ BlockCount(ret.doc, PathA) = 1
    /\ BlockCount(ret.doc, PathB) = 1
    /\ HasLine(ret.doc, <<"--- /dev/null">>)

\* the line of the document at which the block of the k-th included file starts
BlockStart(k) == PrefixTotal(k - 1) + 1
\* the seven-character hashes the header of p is to carry: the first seven
\* digits of the blob's hash, or seven zeros when the side was not resolved
HeadAbbrev(p) ==
    LET f == repo.files[p]
    IN  IF f.staging # "Added" /\ f.head.found /\ repo.access \notin {"nocommits", "headerr"}
        THEN SubSeq(BlobHash(f.head.text), 1, 7)
        ELSE <<"0", "0", "0", "0", "0", "0", "0">>
StagedAbbrev(p) ==
    LET f == repo.files[p]
    IN  IF f.staging # "Deleted" /\ f.idx.entry
        THEN SubSeq(BlobHash(f.idx.text), 1, 7)
        ELSE <<"0", "0", "0", "0", "0", "0", "0">>

\* C20: the block of each included file starts with the header of its staging
\* state: Added gives "new file mode", "--- /dev/null", "+++ b/<path>";
\* Deleted gives "deleted file mode", "--- a/<path>", "+++ /dev/null"; every
\* other state gives an index line with both seven-character hashes, then
\* "--- a/<path>" and "+++ b/<path>".
C20_HeaderByStagingState ==
    Succeeded =>
        \A k \in 1..Len(filesToInclude) :
            LET p == filesToInclude[k]
                s == BlockStart(k)
            IN  /\ Len(HeadAbbrev(p)) = 7 /\ Len(StagedAbbrev(p)) = 7
                /\ ret.doc[s] = DiffLine(p)
                /\ IF Staging(p) = "Added" THEN
                       /\ ret.doc[s + 1] = <<"new file mode 100644">>
                       /\ ret.doc[s + 2] = <<"index 0000000..">> \o StagedAbbrev(p)
                       /\ ret.doc[s + 3] = <<"--- /dev/null">>
                       /\ ret.doc[s + 4] = <<"+++ b/">> \o p
                   ELSE IF Staging(p) = "Deleted" THEN
                       /\ ret.doc[s + 1] = <<"deleted file mode 100644">>
                       /\ ret.doc[s + 2] = <<"index ">> \o HeadAbbrev(p) \o <<"..0000000">>
                       /\ ret.doc[s + 3] = <<"--- a/">> \o p
                       /\ ret.doc[s + 4] = <<"+++ /dev/null">>
                   ELSE
                       /\ Staging(p) \in {"Modified", "Renamed", "Copied"}
                       /\ ret.doc[s + 1] = <<"index ">> \o HeadAbbrev(p) \o <<"..">>
                                              \o StagedAbbrev(p) \o <<" 100644">>
                       /\ ret.doc[s + 2] = <<"--- a/">> \o p
                       /\ ret.doc[s + 3] = <<"+++ b/">> \o p

\* a.txt deleted and b.txt modified, each block with its own header
C20_Witness ==
    /\ Succeeded /\ repo.access = "ok"
    /\ Staging(PathA) = "Deleted" /\ Staging(PathB) = "Modified"
    /\ HasLine(ret.doc, <<"deleted file mode 100644">>)
    /\ HasLine(ret.doc, <<"+++ /dev/null">>)
    /\ HasLine(ret.doc, <<"index ", "5", "8", "7", "b", "e", "6", "b", "..",
                          "9", "7", "5", "f", "b", "e", "c", " 100644">>)
    /\ HasLine(ret.doc, <<"+++ b/">> \o PathB)

\* the tags of the body lines of a hunk, in order
BodyTags(out) == [i \in 1..Len(Body(out)) |-> Body(out)[i][1]]

\* C25: the body of a hunk is leading context, removed lines, added lines,
\* trailing context: no '-' line follows a '+' line, no context line lies
\* between two changed lines, and every line from the first to the last
\* differing line is emitted as removed (old side) and added (new side), the
\* equal ones among them too.
C25_HunkBodyOrdered ==
    (Returned /\ oldContent # newContent) =>
        LET t == BodyTags(diffOut)
        IN  /\ \A i, j \in 1..Len(t) : (i < j /\ t[i] = "+") => t[j] # "-"
            /\ \A i, j, k \in 1..Len(t) :
                   (i < j /\ j < k /\ t[i] \in {"-", "+"} /\ t[k] \in {"-", "+"})
                       => t[j] # " "
            /\ Len(Tagged(diffOut, "-")) = Len(oldL) - pre - suf
            /\ Len(Tagged(diffOut, "+")) = Len(newL) - pre - suf

\* the 0-based indices at which the code reads a text of len lines in the two
\* scans (lines 513, 520-521), cp and cs being the counts the scans end with
ScanReads(len, minLen, cp, cs) ==
    {k \in 0..cp : k < minLen}
        \cup {len - 1 - k : k \in {m \in 0..cs : m < minLen - cp}}
\* the 0-based indices i with lo <= i < hi, as a for loop goes through them
LoopReads(lo, hi) == {i \in lo..(hi - 1) : TRUE}
\* the indices read by the removed (added) loop of a side, lines 568-580
ChangedReads(lines, cp, cs) ==
    LET end == HunkEnd(lines, cp, Len(lines) - cp - cs)
    IN  LoopReads(cp, ChangedBound(lines, cp, cs, end - HunkStart(cp)))
\* the indices of oldLines read by the two context loops, lines 564-566, 582-586
ContextReads(lines, cp, cs) ==
    LET end == HunkEnd(lines, cp, Len(lines) - cp - cs)
    IN  LoopReads(HunkStart(cp), Min(cp, end))
            \cup LoopReads(Len(lines) - cs, Min(end, Len(lines)))

\* C26: the common prefix and the common suffix never overlap: prefix and
\* prefix + suffix are at most min(len(old), len(new)), both changed-region
\* lengths are non-negative, and every index at which a line is read lies
\* inside its text.
C26_PrefixSuffixDisjoint ==
    Returned =>
        LET ol == oldL
            nl == newL
            cp == CommonPrefix(ol, nl)
            cs == CommonSuffix(ol, nl)
            minLen == Min(Len(ol), Len(nl))
        IN  /\ cp >= 0 /\ cs >= 0
            /\ cp <= minLen
            /\ cp + cs <= minLen
            /\ Len(ol) - cp - cs >= 0
            /\ Len(nl) - cp - cs >= 0
            /\ ScanReads(Len(ol), minLen, cp, cs) \cup ContextReads(ol, cp, cs)
                   \cup ChangedReads(ol, cp, cs) \subseteq 0..(Len(ol) - 1)
            /\ ScanReads(Len(nl), minLen, cp, cs) \cup ChangedReads(nl, cp, cs)
                   \subseteq 0..(Len(nl) - 1)

\* prefix and suffix fill the shorter text, and the line before the suffix
\* equals its counterpart: a suffix scan not kept clear of the prefix would
\* go on into it
C26_Witness ==
    LET ol == oldL
        nl == newL
        cp == CommonPrefix(ol, nl)
        cs == CommonSuffix(ol, nl)
    IN  /\ Returned /\ oldContent # newContent
        /\ cp >= 1 /\ cs >= 1
        /\ cp + cs = Min(Len(ol), Len(nl))
        /\ ol[Len(ol) - cs] = nl[Len(nl) - cs]
\* -------------------------------------------------------- getConfig alone
CfgProviders == {"ollama", "openrouter", "azure"}
\* what the YAML file may hold; a key left out leaves its field at zero
YamlPool ==
    [provider : CfgProviders \cup {""}, apiKey : {"", "file-key"},
     apiEndpoint : {"", "http://proxy:1234"}, model : {"", "codellama"},
     debug : BOOLEAN, maxLines : {-1, 0, 2000}]
CfgFiles ==
    { [state |-> s, yaml |-> ZeroConfig] : s \in {"nodir", "absent", "unreadable", "badyaml"} }
        \cup { [state |-> "ok", yaml |-> y] : y \in YamlPool }
FlagPool(values) == {Flag(FALSE, "")} \cup {Flag(TRUE, v) : v \in values}
\* command lines the flag set parses, with every combination of the flags;
\* then -help (alone, and with a bad provider and a left-over argument), a
\* left-over argument, and a command line the flag set rejects
ArgsPool ==
    [parse : {"ok"}, help : {FALSE}, extra : {FALSE},
     provider : FlagPool(CfgProviders),
     model : FlagPool({"", "gpt-4"}),
     endpoint : FlagPool({"", "http://localhost:8080"}),
     debug : {Flag(FALSE, FALSE), Flag(TRUE, TRUE), Flag(TRUE, FALSE)},
     maxLines : {Flag(FALSE, 0), Flag(TRUE, -1), Flag(TRUE, 0), Flag(TRUE, 5000)}]
    \cup { [NoArgs EXCEPT !.help = TRUE],
           [NoArgs EXCEPT !.help = TRUE, !.extra = TRUE,
                          !.provider = Flag(TRUE, "azure")],
           [NoArgs EXCEPT !.extra = TRUE],
           [NoArgs EXCEPT !.parse = "error"] }
EnvKeys == {"", "test-key"}

CfgInit ==
    /\ cfgFile \in CfgFiles
    /\ cfgArgs \in ArgsPool
    /\ cfgEnvKey \in EnvKeys
    /\ cfgOut = ConfigResult(ZeroConfig, FALSE, "nil")
    /\ cfgPc = "call"
    /\ CollectIdle
    /\ DiffIdle
    /\ IgnIdle
    /\ BinIdle
    /\ RunIdle
    /\ FirstCall

CfgCall ==
    /\ cfgPc = "call"
    /\ cfgOut' = getConfig(cfgFile, cfgArgs, cfgEnvKey)
    /\ cfgPc' = "ret"
    /\ UNCHANGED <<cfgFile, cfgArgs, cfgEnvKey>>
    /\ UNCHANGED <<collectVars, diffVars, ignVars, binVars, runVars, againVars>>

CfgNext == CfgCall

SpecConfig == CfgInit /\ [][CfgNext]_vars

\* ------------------------------------------------------------ run: inputs
\* the configurations run is tried with: no file, no config directory, an
\* OpenRouter file with its key, a file with max_lines: -1
RunFiles ==
    { NoFile,
      [state |-> "nodir", yaml |-> ZeroConfig],
      [state |-> "ok", yaml |-> [ZeroConfig EXCEPT !.provider = "openrouter",
                                                   !.apiKey = "file-key"]],
      [state |-> "ok", yaml |-> [ZeroConfig EXCEPT !.maxLines = -1]] }
RunArgs ==
    { NoArgs,
      [NoArgs EXCEPT !.help = TRUE],
      [NoArgs EXCEPT !.parse = "error"],
      [NoArgs EXCEPT !.maxLines = Flag(TRUE, MaxBudget - 1)],
      [NoArgs EXCEPT !.provider = Flag(TRUE, "openrouter")] }
\* the repositories run is tried in
RunRepos ==
    { r \in Repos :
        /\ r.access \in {"ok", "status", "nocommits", "index"}
        /\ r.files[PathA].staging \in {"NotInStatus", "Untracked", "Modified", "Added"}
        /\ r.files[PathA].head = HeadX
        /\ r.files[PathA].idx \in {IdxY, [entry |-> TRUE, blob |-> "noreader", text |-> TextY]}
        /\ r.files[PathA].work \in {WorkText, WorkBinary} }
\* message contents of a reply
ReplyTexts ==
    { <<>>, <<" ">>, <<NL>>, <<"f", "i", "x">>, <<" ", "f", "i", "x", NL>> }
Reply(send, status, decodes, content, choices) ==
    [send |-> send, status |-> status, decodes |-> decodes, content |-> content,
     choices |-> choices]
\* the exchanges that fail, and the replies with status 200 that decode
Replies ==
    { Reply("badurl", 0, FALSE, <<>>, <<>>), Reply("neterr", 0, FALSE, <<>>, <<>>),
      Reply("ok", 500, FALSE, <<>>, <<>>), Reply("ok", 200, FALSE, <<>>, <<>>) }
    \cup { Reply("ok", 200, TRUE, c, ch) :
             c \in ReplyTexts, ch \in {<<>>} \cup {<<t>> : t \in ReplyTexts} }

\* ------------------------------------------------------ describeChanges
\* unicode.IsSpace on the characters a reply is made of here
IsSpace(c) == c \in {" ", NL, "\t"}
\* strings.TrimSpace
RECURSIVE TrimLeft(_)
TrimLeft(s) == IF s # <<>> /\ IsSpace(Head(s)) THEN TrimLeft(Tail(s)) ELSE s
RECURSIVE TrimRight(_)
TrimRight(s) ==
    IF s # <<>> /\ IsSpace(s[Len(s)]) THEN TrimRight(SubSeq(s, 1, Len(s) - 1)) ELSE s
TrimSpace(s) == TrimRight(TrimLeft(s))

Described(text, err) == [text |-> text, err |-> err]

\* lines 630-661, 717-748: the request of either provider up to the decoded
\* reply.  reply.send: "badurl" http.NewRequestWithContext fails, "neterr"
\* client.Do fails, "ok"; reply.status: the HTTP status; reply.decodes:
\* whether the body is JSON of the expected shape
ExchangeError(reply) ==
    IF reply.send = "badurl" THEN "create request"
    ELSE IF reply.send = "neterr" THEN "send request"
    ELSE IF reply.status # 200 THEN "status"
    ELSE IF ~reply.decodes THEN "decode"
    ELSE "nil"

\* lines 598-681; reply.content is message.content of the decoded body
describeChangesOllama(reply) ==
    IF ExchangeError(reply) # "nil" THEN Described(<<>>, ExchangeError(reply))
    ELSE IF reply.content = <<>> THEN Described(<<>>, "no response")
    ELSE Described(TrimSpace(reply.content), "nil")

\* lines 683-769; reply.choices holds choices[i].message.content of the body
describeChangesOpenRouter(reply) ==
    IF ExchangeError(reply) # "nil" THEN Described(<<>>, ExchangeError(reply))
    ELSE IF Len(reply.choices) = 0 THEN Described(<<>>, "no response")
    ELSE Described(TrimSpace(reply.choices[1]), "nil")

\* lines 591-596
describeChanges(cfg, reply) ==
    IF cfg.provider = "ollama" THEN describeChangesOllama(reply)
    ELSE describeChangesOpenRouter(reply)

\* whether a request went out to the endpoint: client.Do was called
Sent(reply) == reply.send # "badurl"

\* ------------------------------------------------------------------ run
\* Mutant: the test for an empty document left out.
NoChangesNever(changes) == FALSE

\* line 158: changes == ""
NoChanges(changes) == changes = <<>>

\* line 129-135: getConfig(argv), its error or -help ending the run
RunGetConfig ==
    /\ runPc = "getConfig"
    /\ \E file \in RunFiles, args \in RunArgs, key \in EnvKeys :
          LET r == getConfig(file, args, key)
          IN  /\ runCfg' = r
              /\ runPc' = IF r.err # "nil" \/ r.help THEN "done" ELSE "open"
              /\ runErr' = IF r.err # "nil" THEN "getConfig" ELSE "nil"
    /\ UNCHANGED <<repoOpened, runOutput, apiCalls>>
    /\ UNCHANGED <<collectVars, diffVars, ignVars, binVars, cfgVars, againVars>>

\* lines 147-153: git.PlainOpen("."), then the call of getStagedChanges
RunOpen ==
    /\ runPc = "open"
    /\ \E opens \in BOOLEAN :
          /\ repoOpened' = opens
          /\ IF opens
             THEN /\ runPc' = "collect"
                  /\ pc' = "start"
                  /\ maxLines' = runCfg.cfg.maxLines
                  /\ UNCHANGED runErr
             ELSE /\ runPc' = "done"
                  /\ runErr' = "open repository"
                  /\ UNCHANGED <<pc, maxLines>>
    /\ UNCHANGED <<runCfg, runOutput, apiCalls>>
    /\ UNCHANGED <<repo, remaining, filesToInclude, rendered, patchBuf, ret, binaryCalls>>
    /\ UNCHANGED <<diffVars, ignVars, binVars, cfgVars, againVars>>

\* lines 154-162: getStagedChanges has returned
RunAfterCollect ==
    /\ runPc = "collect"
    /\ pc = "done"
    /\ IF ret.err.kind # "nil"
       THEN /\ runPc' = "done"
            /\ runErr' = "getStagedChanges"
            /\ UNCHANGED runOutput
       ELSE IF NoChanges(ret.doc)
       THEN /\ runPc' = "done"
            /\ runOutput' = Append(runOutput, <<"No staged changes found.">>)
            /\ UNCHANGED runErr
       ELSE /\ runPc' = "describe"
            /\ UNCHANGED <<runOutput, runErr>>
    /\ UNCHANGED <<runCfg, repoOpened, apiCalls>>
    /\ UNCHANGED <<collectVars, diffVars, ignVars, binVars, cfgVars, againVars>>

\* lines 164-174: describeChanges, then the description written to output
RunDescribe ==
    /\ runPc = "describe"
    /\ \E reply \in Replies :
          LET d == describeChanges(runCfg.cfg, reply)
          IN  /\ apiCalls' = IF Sent(reply) THEN apiCalls + 1 ELSE apiCalls
              /\ runErr' = IF d.err # "nil" THEN "describeChanges" ELSE "nil"
              /\ runOutput' = IF d.err # "nil" THEN runOutput
                              ELSE Append(runOutput, d.text)
    /\ runPc' = "done"
    /\ UNCHANGED <<runCfg, repoOpened>>
    /\ UNCHANGED <<collectVars, diffVars, ignVars, binVars, cfgVars, againVars>>

RunInit ==
    /\ runPc = "getConfig"
    /\ runCfg = ConfigResult(ZeroConfig, FALSE, "nil")
    /\ repoOpened = FALSE
    /\ runOutput = <<>>
    /\ runErr = "nil"
    /\ apiCalls = 0
    /\ repo \in RunRepos
    /\ maxLines = 0
    /\ pc = "idle"
    /\ remaining = {}
    /\ filesToInclude = <<>>
    /\ rendered = 0
    /\ patchBuf = <<>>
    /\ ret = [doc |-> <<>>, err |-> NoError]
    /\ binaryCalls = {}
    /\ DiffIdle
    /\ IgnIdle
    /\ BinIdle
    /\ CfgIdle
    /\ FirstCall

RunNext ==
    \/ RunGetConfig
    \/ RunOpen
    \/ Begin
    \/ FilterStep
    \/ AfterFilter
    \/ RenderStep
    \/ CheckBudget
    \/ RunAfterCollect
    \/ RunDescribe

SpecRun == RunInit /\ [][RunNext]_vars

\* ------------------------------------------------ reading a configuration
CfgReturned == cfgPc = "ret"
\* getConfig returned a configuration: no error and no -help
CfgSucceeded == CfgReturned /\ cfgOut.err = "nil" /\ ~cfgOut.help
\* what loadConfigFile gave for the file of the call
FileCfg == loadConfigFile(cfgFile).cfg

\* the line counts a budget is tried against
LineCounts == {0, 1, 10000, 10001}
Unbounded(limit) == \A n \in LineCounts : ~OverBudget(limit, n)

\* C21: a maxLines <= 0 means unbounded whatever its source: given by the
\* file's max_lines or by the -max-lines flag, it is the maxLines of the
\* returned configuration, and the budget test never fires with it.
C21_NonPositiveMaxLinesUnbounded ==
    CfgSucceeded =>
        /\ (cfgArgs.maxLines.given /\ cfgArgs.maxLines.value <= 0) =>
               /\ cfgOut.cfg.maxLines = cfgArgs.maxLines.value
               /\ Unbounded(cfgOut.cfg.maxLines)
        /\ (~cfgArgs.maxLines.given /\ cfgFile.state = "ok"
              /\ cfgFile.yaml.maxLines <= 0) =>
               /\ cfgOut.cfg.maxLines = cfgFile.yaml.maxLines
               /\ Unbounded(cfgOut.cfg.maxLines)

\* no config file, no command-line flag, no OPENROUTER_API_KEY
OutOfTheBox == cfgFile.state = "absent" /\ cfgArgs = NoArgs /\ cfgEnvKey = ""

C23_NoArgsNeedsApiKey ==
    (CfgReturned /\ cfgArgs = NoArgs /\ cfgFile.state = "absent") =>
        IF cfgEnvKey = "" THEN cfgOut.err # "nil"
        ELSE /\ cfgOut.err = "nil" /\ ~cfgOut.help
             /\ cfgOut.cfg.apiKey = cfgEnvKey
             /\ cfgOut.cfg.model = "anthropic/claude-4.5-sonnet"
             /\ cfgOut.cfg.debug = FALSE
             /\ cfgOut.cfg.maxLines = 10000

\* a string flag given with a value; a flag given as "" is no case of the claims
Given(flag) == flag.given /\ flag.value # ""
Absent(flag) == ~flag.given
\* the value a field has without its flag: the one the config file sets, or
\* else the default, which for model and endpoint is that of the provider
KeptModel(provider) ==
    IF cfgFile.state = "ok" /\ cfgFile.yaml.model # "" THEN cfgFile.yaml.model
    ELSE IF provider = "ollama" THEN "llama3.2" ELSE "anthropic/claude-4.5-sonnet"
KeptEndpoint(provider) ==
    IF cfgFile.state = "ok" /\ cfgFile.yaml.apiEndpoint # "" THEN cfgFile.yaml.apiEndpoint
    ELSE IF provider = "ollama" THEN "http://localhost:11434"
    ELSE "https://openrouter.ai/api/v1"

\* C24: flags override the config file: each of -model, -endpoint, -debug,
\* -max-lines that is given sets its field of the returned configuration
\* whatever the file says, and a field whose flag is absent keeps the value
\* of the config file, or the default where the file sets none.
C24_FlagsOverrideFile ==
    CfgSucceeded =>
        LET c == cfgOut.cfg
        IN  /\ Given(cfgArgs.model) => c.model = cfgArgs.model.value
            /\ Given(cfgArgs.endpoint) => c.apiEndpoint = cfgArgs.endpoint.value
            /\ cfgArgs.debug.given => c.debug = cfgArgs.debug.value
            /\ cfgArgs.maxLines.given => c.maxLines = cfgArgs.maxLines.value
            /\ Absent(cfgArgs.model) => c.model = KeptModel(c.provider)
            /\ Absent(cfgArgs.endpoint) => c.apiEndpoint = KeptEndpoint(c.provider)
            /\ Absent(cfgArgs.debug) => c.debug = FileCfg.debug
            /\ Absent(cfgArgs.maxLines) => c.maxLines = FileCfg.maxLines

\* the -provider flag names another provider than the config file gives
ProviderChanged == cfgArgs.provider.given /\ cfgArgs.provider.value # FileCfg.provider
ModelSet == Given(cfgArgs.model) \/ (cfgFile.state = "ok" /\ cfgFile.yaml.model # "")
EndpointSet ==
    Given(cfgArgs.endpoint) \/ (cfgFile.state = "ok" /\ cfgFile.yaml.apiEndpoint # "")

\* C29: model and endpoint are replaced by the provider's defaults only if
\* -provider changed the provider and they were not explicitly set: one set
\* by flag or in the config file is kept, and -provider naming the provider
\* already configured changes nothing.
C29_ProviderDefaultsOnlyOnChange ==
    CfgSucceeded =>
        /\ (ModelSet \/ ~ProviderChanged) =>
               cfgOut.cfg.model =
                   (IF Given(cfgArgs.model) THEN cfgArgs.model.value ELSE FileCfg.model)
        /\ (EndpointSet \/ ~ProviderChanged) =>
               cfgOut.cfg.apiEndpoint =
                   (IF Given(cfgArgs.endpoint) THEN cfgArgs.endpoint.value
                    ELSE FileCfg.apiEndpoint)
        /\ (cfgArgs.provider.given /\ ~ProviderChanged) =>
               cfgOut = getConfig(cfgFile, [cfgArgs EXCEPT !.provider = Flag(FALSE, "")],
                                  cfgEnvKey)

\* ------------------------------------------------------- reading a run
RunDone == runPc = "done"
\* getConfig was called and returned a configuration: no error, no -help
ConfigOk == runPc # "getConfig" /\ runCfg.err = "nil" /\ ~runCfg.help
\* getStagedChanges was called and has returned
Collected == pc = "done"

\* C27: run calls the summarization endpoint at most once, and only after
\* getConfig succeeded without -help, the repository was opened and
\* getStagedChanges returned a non-empty document and no error; with an empty
\* document it writes "No staged changes found." and returns nil without a
\* call; when the collection fails it returns the error without a call and
\* without writing anything.
C27_EndpointOnlyAfterCollection ==
    /\ apiCalls <= 1
    /\ (apiCalls = 1 \/ runPc = "describe") =>
           /\ ConfigOk /\ repoOpened /\ Collected
           /\ ret.err = NoError /\ ret.doc # <<>>
    /\ (RunDone /\ Collected /\ ret.err = NoError /\ ret.doc = <<>>) =>
           /\ runOutput = << <<"No staged changes found.">> >>
           /\ runErr = "nil"
           /\ apiCalls = 0
    /\ (RunDone /\ Collected /\ ret.err # NoError) =>
           /\ runErr = "getStagedChanges"
           /\ apiCalls = 0
           /\ runOutput = <<>>
    /\ (RunDone /\ ~Collected) => apiCalls = 0 /\ runOutput = <<>>

\* a run that called the endpoint once and wrote the description it got
C27_Witness ==
    /\ RunDone /\ apiCalls = 1 /\ runErr = "nil"
    /\ ret.doc # <<>>
    /\ runOutput = << <<"f", "i", "x">> >>

\* C30: describeChanges never returns an empty description without an error,
\* with either provider: whenever run called the endpoint and returns nil,
\* the description it wrote is not empty.
C30_NoEmptyDescription ==
    (RunDone /\ apiCalls = 1 /\ runErr = "nil") =>
        /\ Len(runOutput) = 1
        /\ runOutput[1] # <<>>

\* ------------------------------------- getStagedChanges, called twice
\* a second call of getStagedChanges on the same repository with the same
\* configuration, once the first has returned; what the first returned is kept
Again ==
    /\ pc = "done"
    /\ invocation = 1
    /\ firstRet' = ret
    /\ invocation' = 2
    /\ pc' = "start"
    /\ remaining' = {}
    /\ filesToInclude' = <<>>
    /\ rendered' = 0
    /\ patchBuf' = <<>>
    /\ ret' = [doc |-> <<>>, err |-> NoError]
    /\ binaryCalls' = {}
    /\ UNCHANGED <<repo, maxLines>>
    /\ UNCHANGED <<diffVars, ignVars, binVars, cfgVars, runVars>>

AgainNext ==
    \/ Begin
    \/ FilterStep
    \/ AfterFilter
    \/ RenderStep
    \/ CheckBudget
    \/ Again

SpecAgain == Init /\ [][AgainNext]_vars

\* C28: getStagedChanges is deterministic: a second call on the same
\* repository state with the same configuration returns what the first
\* returned, the same document with the blocks in the same order.
C28_SameDocumentEveryCall ==
    (Done /\ invocation = 2) => ret = firstRet

====
